---- MODULE Spec2Model ----
(***************************************************************************)
(* A model of the redis-backed session store of redisstore.go.             *)
(*                                                                         *)
(* The store (RedisStore) is process-wide configuration: default Options,  *)
(* the list of cookie codecs, maxLength and DefaultMaxAge.  Every request  *)
(* runs New (Get), lets its handler mutate the session, runs Save and then *)
(* hands the response's Set-Cookie to the client.  The redis server, the   *)
(* clients' cookies and the wall clock are the environment.                *)
(***************************************************************************)
EXTENDS Integers, Sequences, FiniteSets, TLC

(***************************************************************************)
(* Bounds of the model.                                                    *)
(***************************************************************************)
\* Requests started over a run, and over a run with administrative calls and
\* a clock that moves.
MaxReqs == 3
MaxReqsAdmin == 2
\* Requests started over a run in which the codecs are rotated, and over a
\* run of a program that keeps two sessions.
MaxReqsKeys == 3
MaxReqsNames == 3
\* Session identifiers Save may generate over a run.
MaxIds == 2
\* Steps of the wall clock over a run.
MaxTicks == 1
\* Mutations (Set, Options) a handler makes to its session in one request.
MaxMuts == 1
\* Administrative calls (SetMaxAge, store.Options) over a run.
MaxCfg == 1
\* Writes to the redis server by parties other than this store.
MaxForeign == 1
\* Commands the redis server leaves unanswered over a run.
MaxFails == 1

(***************************************************************************)
(* Program constants.                                                      *)
(***************************************************************************)
\* var sessionExpire = 86400 * 30
sessionExpire == 86400 * 30
\* NewRedisStore: DefaultMaxAge: 60 * 20
DefaultMaxAge == 60 * 20
\* NewRedisStore: maxLength: 4096
DefaultMaxLength == 4096
\* keyPrefix is never assigned: the zero value of string.
keyPrefix == ""
\* session.ID == "": identifiers are numbered from 1, 0 is the empty string.
EmptyID == 0
\* The error values New and Save return.
Nil == "nil"
ErrAuth == "securecookie: the value is not valid"
ErrNoCodecs == "securecookie: no codecs provided"
ErrRedisNil == "redis: nil"
ErrBackend == "redis: connection error"
ErrGob == "gob: type not registered for interface"
ErrGobEOF == "unexpected EOF"
ErrTooBig == "SessionStore: the value to store is too big"

\* The two concurrently served requests.
Reqs == {1, 2}
\* The session (cookie) name the handlers use, and the names of a program
\* that keeps two sessions.
OneName == {"mysession"}
Names == {"mysession", "other"}
\* The keys a handler stores in a session, in the order gob writes them.  Of
\* the values, "fit" and "big" are long strings and "unreg" is a value of a
\* type that is not registered with gob.
KeyOrder == <<"j", "k">>
\* The (key, value) pairs the handlers Set.
SetInputs ==
    {<<"k", "ok">>, <<"j", "ok">>, <<"k", "fit">>, <<"k", "big">>, <<"j", "unreg">>}
OneSet == {<<"k", "ok">>}
\* The max-ages handlers and administrators choose.
MaxAgeInputs == {-1, 0, 1}
\* The steps the wall clock makes, in seconds.
TickSteps == {1, 2, DefaultMaxAge}

(***************************************************************************)
(* The payload codec (GobSerializer).                                      *)
(***************************************************************************)
EmptyValues == [k \in {} |-> "ok"]

Registered(v) == v # "unreg"

\* The length in bytes of gob's encoding of one value.
ValLen(v) ==
    CASE v = "fit" -> DefaultMaxLength - 3
      [] v = "big" -> DefaultMaxLength - 2
      [] OTHER -> 2

\* The entries of a map in the order they are written.
Entries(values) ==
    LET present == SelectSeq(KeyOrder, LAMBDA k : k \in DOMAIN values)
    IN  [i \in 1..Len(present) |-> <<present[i], values[present[i]]>>]

RECURSIVE SumLen(_)
SumLen(es) ==
    IF es = <<>> THEN 0 ELSE 1 + ValLen(Head(es)[2]) + SumLen(Tail(es))

\* len(b) of an encoded payload: a two byte header and the entries.
ByteLen(b) == 2 + SumLen(b.entries)

\* GobSerializer.Serialize: enc.Encode(ss.Values).  The message states the
\* number of entries and then holds them; a value of an unregistered type
\* makes Encode fail.
Serialize(values) ==
    IF \E k \in DOMAIN values : ~Registered(values[k])
    THEN [err |-> ErrGob, b |-> [n |-> 0, entries |-> <<>>]]
    ELSE [err |-> Nil,
          b |-> [n |-> Cardinality(DOMAIN values), entries |-> Entries(values)]]

\* Decoding the entries one after the other into the map: the entries before
\* the first undecodable one stay in the map.
RECURSIVE DecodeEntries(_, _)
DecodeEntries(es, values) ==
    IF es = <<>> THEN [err |-> Nil, Values |-> values]
    ELSE IF ~Registered(Head(es)[2]) THEN [err |-> ErrGob, Values |-> values]
    ELSE DecodeEntries(Tail(es),
             [k \in DOMAIN values \cup {Head(es)[1]} |->
                 IF k = Head(es)[1] THEN Head(es)[2] ELSE values[k]])

\* A Deserialize that decodes nothing and reports success.
Deserialize_Skip(d, values) == [err |-> Nil, Values |-> values]

\* GobSerializer.Deserialize: dec.Decode(&ss.Values).  A message shorter than
\* its stated length fails before anything is decoded.
Deserialize(d, values) ==
    IF Len(d.entries) < d.n THEN [err |-> ErrGobEOF, Values |-> values]
    ELSE DecodeEntries(d.entries, values)

(***************************************************************************)
(* The cookie codecs (securecookie).  A codec is [kind, key, maxAge]:      *)
(* kind "secure" is a *securecookie.SecureCookie, kind "custom" any other  *)
(* implementation of securecookie.Codec, which has no max-age of its own.  *)
(***************************************************************************)
SecureCodec(key) == [kind |-> "secure", key |-> key, maxAge |-> sessionExpire]
CustomCodec(key) == [kind |-> "custom", key |-> key, maxAge |-> 0]

\* The cookie value of a cookie that is cleared.
EmptyValue == [name |-> "", id |-> EmptyID, ts |-> 0, key |-> ""]

\* codec.Encode(name, id): the value is bound to the name, stamped with the
\* time and signed with the codec's key.
CodecEncode(c, name, id, t) == [name |-> name, id |-> id, ts |-> t, key |-> c.key]

\* A Decode that does not look at the age of the value.
CodecDecodes_NoAge(c, name, value, t) ==
    /\ value.key = c.key
    /\ value.name = name

\* A Decode that does not look at the name the value was sealed for.
CodecDecodes_AnyName(c, name, value, t) ==
    /\ value.key = c.key
    /\ \/ c.kind # "secure"
       \/ c.maxAge = 0
       \/ ~(value.ts < t - c.maxAge)

\* codec.Decode(name, value, &id): the signature over the name and the value,
\* then (SecureCookie only) the timestamp against maxAge.
CodecDecodes(c, name, value, t) ==
    /\ value.key = c.key
    /\ value.name = name
    /\ \/ c.kind # "secure"
       \/ c.maxAge = 0
       \/ ~(value.ts < t - c.maxAge)

\* securecookie.EncodeMulti: the first codec that encodes.
EncodeMulti(name, id, codecs, t) ==
    IF Len(codecs) = 0
    THEN [err |-> ErrNoCodecs, value |-> EmptyValue]
    ELSE [err |-> Nil, value |-> CodecEncode(codecs[1], name, id, t)]

\* A DecodeMulti that tries the first codec only.
DecodeMulti_FirstOnly(name, value, codecs, t) ==
    IF Len(codecs) = 0 THEN [err |-> ErrNoCodecs, id |-> EmptyID]
    ELSE IF CodecDecodes(codecs[1], name, value, t)
    THEN [err |-> Nil, id |-> value.id]
    ELSE [err |-> ErrAuth, id |-> EmptyID]

\* securecookie.DecodeMulti: the first codec that decodes, in order.
DecodeMulti(name, value, codecs, t) ==
    IF Len(codecs) = 0 THEN [err |-> ErrNoCodecs, id |-> EmptyID]
    ELSE IF \E i \in 1..Len(codecs) : CodecDecodes(codecs[i], name, value, t)
    THEN [err |-> Nil, id |-> value.id]
    ELSE [err |-> ErrAuth, id |-> EmptyID]

(***************************************************************************)
(* The state.                                                              *)
(***************************************************************************)
VARIABLES
    now,        \* the wall clock, in seconds
    ticks,      \* the steps the clock has made
    Options,    \* rs.Options: the default configuration, [Path, MaxAge]
    Codecs,     \* rs.Codecs
    maxLength,  \* rs.maxLength
    admin,      \* the SetMaxAge in progress: [pc, v, i, was], `was` being
                \* the default MaxAge and the codecs when it was called
    maxAgeSet,  \* the value of the last completed SetMaxAge, while it stands
    cfgs,       \* the administrative calls made
    redis,      \* the redis server: key -> [data, exp]
    saved,      \* per key, what the Save that last SET it stored and returned
    issued,     \* the cookies Save has sealed, with the values it stored
    foreign,    \* the writes by other parties made
    fails,      \* the commands the server has left unanswered
    jar,        \* the cookies the clients hold: [name, value]
    nextId,     \* the next identifier GenerateRandomKey yields
    started,    \* the requests started
    scope,      \* what a run covers: [reqs, names, sets, fails]
    pc,         \* per request: "idle", "got" (New returned), "done" (Save returned)
    at,         \* per request: the time New was called
    name,       \* per request: the session name of its handler
    hdr,        \* per request: the cookies of the request
    session,    \* per request: the *sessions.Session, [ID, Values, Options, IsNew]
    err,        \* per request: the error of the last New or Save
    resp,       \* per request: the cookies set on the response
    trace,      \* per request: the commands and SetCookie of the last New or Save
    muts        \* per request: the mutations its handler has made

vars == <<now, ticks, Options, Codecs, maxLength, admin, maxAgeSet, cfgs, redis,
          saved, issued, foreign, fails, jar, nextId, started, scope, pc, at,
          name, hdr, session, err, resp, trace, muts>>

storeVars == <<Options, Codecs, maxLength, admin, maxAgeSet, cfgs>>
envVars == <<now, ticks, foreign, fails, scope>>
reqVars == <<pc, at, name, hdr, session, err, resp, trace, muts>>

\* NewRedisStore(redisClient, keyPairs...), and the stores whose Codecs or
\* maxLength field was assigned before the store was put to use.
StoreConfigs ==
    { [Codecs |-> <<SecureCodec("key1")>>, maxLength |-> DefaultMaxLength],
      [Codecs |-> <<CustomCodec("key2"), SecureCodec("key1")>>,
       maxLength |-> DefaultMaxLength],
      [Codecs |-> <<>>, maxLength |-> DefaultMaxLength],
      [Codecs |-> <<SecureCodec("key1")>>, maxLength |-> 0] }

NoPayload == [n |-> 0, entries |-> <<>>]
NoSession == [ID |-> EmptyID, Values |-> EmptyValues,
              Options |-> [Path |-> "", MaxAge |-> 0], IsNew |-> FALSE]
EmptyMap == [k \in {} |-> NoPayload]

\* No administrative call in progress.
NoAdmin == [pc |-> "idle", v |-> 0, i |-> 0, was |-> <<>>]

InitStore ==
    /\ now = 10
    /\ ticks = 0
    /\ Options = [Path |-> "/", MaxAge |-> sessionExpire]
    /\ \E c \in StoreConfigs : Codecs = c.Codecs /\ maxLength = c.maxLength
    /\ admin = NoAdmin
    /\ maxAgeSet = {}
    /\ cfgs = 0
    /\ redis = EmptyMap
    /\ saved = EmptyMap
    /\ issued = {}
    /\ foreign = 0
    /\ fails = 0
    /\ jar = {}
    /\ nextId = 1
    /\ started = 0
    /\ pc = [r \in Reqs |-> "idle"]
    /\ at = [r \in Reqs |-> 0]
    /\ name = [r \in Reqs |-> ""]
    /\ hdr = [r \in Reqs |-> {}]
    /\ session = [r \in Reqs |-> NoSession]
    /\ err = [r \in Reqs |-> Nil]
    /\ resp = [r \in Reqs |-> {}]
    /\ trace = [r \in Reqs |-> <<>>]
    /\ muts = [r \in Reqs |-> 0]

\* The store serving requests, with a redis server that may fail or be written
\* to by others.
Init ==
    /\ InitStore
    /\ scope = [reqs |-> MaxReqs, names |-> OneName, sets |-> SetInputs,
                fails |-> MaxFails]

\* The store serving requests while it is reconfigured and time passes.
InitAdmin ==
    /\ InitStore
    /\ maxLength = DefaultMaxLength
    /\ scope = [reqs |-> MaxReqsAdmin, names |-> OneName, sets |-> OneSet,
                fails |-> 0]

(***************************************************************************)
(* The redis server.                                                       *)
(***************************************************************************)
\* The store serving requests while its codecs are rotated and time passes.
InitKeys ==
    /\ InitStore
    /\ maxLength = DefaultMaxLength
    /\ Len(Codecs) > 0
    /\ scope = [reqs |-> MaxReqsKeys, names |-> OneName, sets |-> OneSet,
                fails |-> 0]

\* The store serving the requests of a program that keeps two sessions, and
\* whose handlers may go on after Save.
InitNames ==
    /\ InitStore
    /\ maxLength = DefaultMaxLength
    /\ Len(Codecs) > 0
    /\ scope = [reqs |-> MaxReqsNames, names |-> Names, sets |-> OneSet,
                fails |-> 0]

\* One key for every session.
Key_Shared(id) == <<keyPrefix, EmptyID>>

\* rs.keyPrefix + session.ID
Key(id) == <<keyPrefix, id>>

Put(f, key, e) == [k \in DOMAIN f \cup {key} |-> IF k = key THEN e ELSE f[k]]
Drop(f, keys) == [k \in DOMAIN f \ keys |-> f[k]]

\* A command of the store: GET, SET (with data and ttl) or DEL, and whether
\* the server answered it.  "COOKIE" marks http.SetCookie in a trace.
Cmd(c, key, data, ttl, ok) ==
    [cmd |-> c, key |-> key, data |-> data, ttl |-> ttl, ok |-> ok]

\* A server whose SET adds the entries to the ones the key holds.
Apply_Merge(rds, cmds, t) ==
    IF cmds = <<>> \/ ~cmds[1].ok THEN rds
    ELSE IF cmds[1].cmd = "DEL" THEN Drop(rds, {cmds[1].key})
    ELSE IF cmds[1].cmd # "SET" THEN rds
    ELSE LET c == cmds[1]
             old == IF c.key \in DOMAIN rds THEN rds[c.key].data.entries ELSE <<>>
             all == old \o c.data.entries
         IN  Put(rds, c.key,
                 [data |-> [n |-> Len(all), entries |-> all], exp |-> t + c.ttl])

\* The server after the commands: SET key data EX ttl, DEL key.
RECURSIVE Apply(_, _, _)
Apply(rds, cmds, t) ==
    IF cmds = <<>> THEN rds
    ELSE LET c == Head(cmds)
             after == IF ~c.ok THEN rds
                      ELSE IF c.cmd = "SET"
                           THEN Put(rds, c.key, [data |-> c.data, exp |-> t + c.ttl])
                      ELSE IF c.cmd = "DEL" THEN Drop(rds, {c.key})
                      ELSE rds
         IN  Apply(after, Tail(cmds), t)

(***************************************************************************)
(* New and Get.                                                            *)
(***************************************************************************)
\* load: GET keyPrefix+ID, then Deserialize into session.Values.  `up` is
\* whether the server answers.
load(s, rds, up) ==
    LET key == Key(s.ID)
        get == Cmd("GET", key, NoPayload, 0, up)
    IN  IF ~up
        THEN [ok |-> FALSE, err |-> ErrBackend, session |-> s, cmds |-> <<get>>]
        ELSE IF key \notin DOMAIN rds
        THEN [ok |-> FALSE, err |-> ErrRedisNil, session |-> s, cmds |-> <<get>>]
        ELSE LET d == Deserialize(rds[key].data, s.Values)
             IN  [ok |-> TRUE, err |-> d.err,
                  session |-> [s EXCEPT !.Values = d.Values], cmds |-> <<get>>]

\* A session that is never new once its cookie has authenticated.
IsNewAfterLoad_Never(e, ok) == FALSE

\* session.IsNew = !(err == nil && ok)
IsNewAfterLoad(e, ok) == ~(e = Nil /\ ok)

\* RedisStore.New: the session and the error it returns for the request's
\* cookies h and the session name n.
NewResult(n, h, opts, codecs, rds, t, up) ==
    LET fresh == [ID |-> EmptyID, Values |-> EmptyValues, Options |-> opts,
                  IsNew |-> TRUE]
    IN  IF ~\E c \in h : c.name = n
        THEN [session |-> fresh, err |-> Nil, cmds |-> <<>>]
        ELSE LET c == CHOOSE c \in h : c.name = n
                 dec == DecodeMulti(n, c.value, codecs, t)
             IN  IF dec.err # Nil
                 THEN [session |-> fresh, err |-> dec.err, cmds |-> <<>>]
                 ELSE LET ld == load([fresh EXCEPT !.ID = dec.id], rds, up)
                      IN  [session |-> [ld.session EXCEPT
                                           !.IsNew = IsNewAfterLoad(ld.err, ld.ok)],
                           err |-> ld.err, cmds |-> ld.cmds]

\* The cookies a client sends under the name n: none, one it holds, or one
\* signed with a key the store does not have.
Forged(n) == [name |-> n, id |-> 1, ts |-> 0, key |-> "attacker"]

Headers(n) ==
    {{}} \cup {{[name |-> n, value |-> c.value]} : c \in jar}
         \cup {{[name |-> n, value |-> Forged(n)]}}

\* Whether the server answers the next command.
Answers == IF fails < scope.fails THEN BOOLEAN ELSE {TRUE}

New(r) ==
    /\ pc[r] = "idle"
    /\ \A q \in Reqs : q < r => pc[q] # "idle"
    /\ started < scope.reqs
    /\ \E n \in scope.names : \E h \in Headers(n), up \in Answers :
          LET res == NewResult(n, h, Options, Codecs, redis, now, up)
          IN  /\ name' = [name EXCEPT ![r] = n]
              /\ fails' = IF up \/ res.cmds = <<>> THEN fails ELSE fails + 1
              /\ hdr' = [hdr EXCEPT ![r] = h]
              /\ session' = [session EXCEPT ![r] = res.session]
              /\ err' = [err EXCEPT ![r] = res.err]
              /\ trace' = [trace EXCEPT ![r] = res.cmds]
    /\ pc' = [pc EXCEPT ![r] = "got"]
    /\ at' = [at EXCEPT ![r] = now]
    /\ resp' = [resp EXCEPT ![r] = {}]
    /\ muts' = [muts EXCEPT ![r] = 0]
    /\ started' = started + 1
    /\ UNCHANGED <<storeVars, now, ticks, foreign, scope, redis, saved, issued, jar,
                   nextId>>

(***************************************************************************)
(* The handler between New and Save.                                       *)
(***************************************************************************)
\* session.Values[k] = v
SetValue(r) ==
    /\ pc[r] = "got"
    /\ muts[r] < MaxMuts
    /\ \E kv \in scope.sets :
          session' = [session EXCEPT ![r].Values =
              [k \in DOMAIN @ \cup {kv[1]} |-> IF k = kv[1] THEN kv[2] ELSE @[k]]]
    /\ muts' = [muts EXCEPT ![r] = @ + 1]
    /\ UNCHANGED <<storeVars, envVars, redis, saved, issued, jar, nextId, started,
                   pc, at, name, hdr, err, resp, trace>>

\* The holders of an Options struct: the store (rs.Options), numbered 0, and
\* the sessions of the requests.
StoreHolder == 0
Holders == {StoreHolder} \cup Reqs

\* A session whose Options pointer is the store's own, and so every other
\* session's too.
SharesOptions_Store(r) == Holders

\* New: options := *rs.Options; session.Options = &options.  The pointer is to
\* a copy made for this session, which only this session holds.
SharesOptions(r) == {r}

\* session.Options.MaxAge = m: a write through the session's Options pointer,
\* seen by every holder of the struct it points to.
SetSessionMaxAge(r) ==
    /\ pc[r] = "got"
    /\ muts[r] < MaxMuts
    /\ \E m \in MaxAgeInputs :
          /\ session' = [q \in Reqs |->
                IF q \in SharesOptions(r) /\ pc[q] # "idle"
                THEN [session[q] EXCEPT !.Options.MaxAge = m] ELSE session[q]]
          /\ Options' = IF StoreHolder \in SharesOptions(r)
                        THEN [Options EXCEPT !.MaxAge = m] ELSE Options
    /\ muts' = [muts EXCEPT ![r] = @ + 1]
    /\ UNCHANGED <<Codecs, maxLength, admin, maxAgeSet, cfgs, envVars, redis, saved,
                   issued, jar, nextId, started, pc, at, name, hdr, err, resp, trace>>

(***************************************************************************)
(* Save.                                                                   *)
(***************************************************************************)
\* sessions.NewCookie(name, value, options)
NewCookie(n, value, options, t) ==
    [name |-> n, value |-> value, path |-> options.Path,
     maxAge |-> options.MaxAge,
     expires |-> IF options.MaxAge > 0 THEN t + options.MaxAge
                 ELSE IF options.MaxAge < 0 THEN 1 ELSE 0]

SetCookie(key) == Cmd("COOKIE", key, NoPayload, 0, TRUE)

\* A delete that sends nothing.
delete_NoCmd(s, up) == [err |-> Nil, cmds |-> <<>>]

\* delete: DEL keyPrefix+ID
delete(s, up) ==
    [err |-> IF up THEN Nil ELSE ErrBackend,
     cmds |-> <<Cmd("DEL", Key(s.ID), NoPayload, 0, up)>>]

\* A TTL that is MaxAge as it stands, zero included.
Age_Raw(s) == s.Options.MaxAge

\* The TTL save gives the key.
Age(s) == IF s.Options.MaxAge = 0 THEN DefaultMaxAge ELSE s.Options.MaxAge

\* A size check that rejects a payload of exactly the limit.
TooBig_AtLimit(b, limit) == limit # 0 /\ ByteLen(b) >= limit

\* The size check of save.
TooBig(b, limit) == limit # 0 /\ ByteLen(b) > limit

\* A save that sends its SET a second time when the first is not answered.
save_Retry(s, limit, up) ==
    LET ser == Serialize(s.Values)
        set == Cmd("SET", Key(s.ID), ser.b, Age(s), up)
    IN  IF ser.err # Nil THEN [err |-> ser.err, cmds |-> <<>>]
        ELSE IF TooBig(ser.b, limit) THEN [err |-> ErrTooBig, cmds |-> <<>>]
        ELSE [err |-> IF up THEN Nil ELSE ErrBackend,
              cmds |-> IF up THEN <<set>> ELSE <<set, set>>]

\* save: Serialize, the size check, SET keyPrefix+ID b EX age
save(s, limit, up) ==
    LET ser == Serialize(s.Values)
    IN  IF ser.err # Nil THEN [err |-> ser.err, cmds |-> <<>>]
        ELSE IF TooBig(ser.b, limit) THEN [err |-> ErrTooBig, cmds |-> <<>>]
        ELSE [err |-> IF up THEN Nil ELSE ErrBackend,
              cmds |-> <<Cmd("SET", Key(s.ID), ser.b, Age(s), up)>>]

\* A Save that gives a new identifier to every session that was not loaded.
WithID_IfNew(s, fresh) ==
    IF s.ID = EmptyID \/ s.IsNew THEN [s EXCEPT !.ID = fresh] ELSE s

\* A Save that gives every session a new identifier.
WithID_Fresh(s, fresh) == [s EXCEPT !.ID = fresh]

\* The identifier Save gives a session that has none.
WithID(s, fresh) == IF s.ID = EmptyID THEN [s EXCEPT !.ID = fresh] ELSE s

\* RedisStore.Save: the session, the error, the commands sent and the cookies
\* set on the response, in the order they happen.
SaveResult(n, s, fresh, codecs, limit, t, up) ==
    IF s.Options.MaxAge < 0
    THEN LET d == delete(s, up)
         IN  IF d.err # Nil
             THEN [session |-> s, err |-> d.err, cmds |-> d.cmds, cookies |-> {}]
             ELSE [session |-> s, err |-> Nil,
                   cmds |-> d.cmds \o <<SetCookie(Key(s.ID))>>,
                   cookies |-> {NewCookie(n, EmptyValue, s.Options, t)}]
    ELSE LET s1 == WithID(s, fresh)
             sv == save(s1, limit, up)
             enc == EncodeMulti(n, s1.ID, codecs, t)
         IN  IF sv.err # Nil
             THEN [session |-> s1, err |-> sv.err, cmds |-> sv.cmds, cookies |-> {}]
             ELSE IF enc.err # Nil
             THEN [session |-> s1, err |-> enc.err, cmds |-> sv.cmds, cookies |-> {}]
             ELSE [session |-> s1, err |-> Nil,
                   cmds |-> sv.cmds \o <<SetCookie(Key(s1.ID))>>,
                   cookies |-> {NewCookie(n, enc.value, s1.Options, t)}]

\* What the last command on a key leaves to be said of it: the values and
\* the cookie of the Save, when it was a SET of a Save that returned nil.
Saved(old, res) ==
    LET sets == SelectSeq(res.cmds, LAMBDA c : c.cmd \in {"SET", "DEL"} /\ c.ok)
    IN  IF sets = <<>> THEN old
        ELSE IF sets[1].cmd = "SET" /\ res.err = Nil
        THEN Put(old, sets[1].key,
                 [Values |-> res.session.Values,
                  value |-> (CHOOSE c \in res.cookies : TRUE).value,
                  ttl |-> sets[1].ttl])
        ELSE Drop(old, {sets[1].key})

Save(r) ==
    /\ pc[r] = "got"
    /\ session[r].Options.MaxAge >= 0 /\ session[r].ID = EmptyID => nextId <= MaxIds
    /\ \E up \in Answers :
          LET res == SaveResult(name[r], session[r], nextId, Codecs, maxLength,
                                now, up)
          IN  /\ session' = [session EXCEPT ![r] = res.session]
              /\ fails' = IF up \/ res.cmds = <<>> THEN fails ELSE fails + 1
              /\ err' = [err EXCEPT ![r] = res.err]
              /\ trace' = [trace EXCEPT ![r] = res.cmds]
              /\ resp' = [resp EXCEPT ![r] = res.cookies]
              /\ redis' = Apply(redis, res.cmds, now)
              /\ saved' = Saved(saved, res)
              /\ issued' = issued \cup
                    {[value |-> c.value, Values |-> res.session.Values,
                      under |-> maxAgeSet] :
                        c \in {x \in res.cookies : x.value # EmptyValue}}
              /\ nextId' = IF res.session.ID # session[r].ID THEN nextId + 1
                            ELSE nextId
    /\ pc' = [pc EXCEPT ![r] = "done"]
    /\ UNCHANGED <<storeVars, now, ticks, foreign, scope, jar, started, at, name,
                   hdr, muts>>

\* The handler goes on with its session after Save has returned, and may
\* call Save again.
Continue(r) ==
    /\ pc[r] = "done"
    /\ muts[r] < MaxMuts
    /\ pc' = [pc EXCEPT ![r] = "got"]
    /\ muts' = [muts EXCEPT ![r] = @ + 1]
    /\ UNCHANGED <<storeVars, envVars, redis, saved, issued, jar, nextId, started,
                   at, name, hdr, session, err, resp, trace>>

\* The response reaches the client, which keeps the cookie; the request's
\* session is dropped.
Finish(r) ==
    /\ pc[r] \in {"got", "done"}
    /\ jar' = jar \cup {[name |-> c.name, value |-> c.value] :
                           c \in {x \in resp[r] : x.value # EmptyValue}}
    /\ pc' = [pc EXCEPT ![r] = "idle"]
    /\ at' = [at EXCEPT ![r] = 0]
    /\ name' = [name EXCEPT ![r] = ""]
    /\ hdr' = [hdr EXCEPT ![r] = {}]
    /\ session' = [session EXCEPT ![r] = NoSession]
    /\ err' = [err EXCEPT ![r] = Nil]
    /\ resp' = [resp EXCEPT ![r] = {}]
    /\ trace' = [trace EXCEPT ![r] = <<>>]
    /\ muts' = [muts EXCEPT ![r] = 0]
    /\ UNCHANGED <<storeVars, envVars, redis, saved, issued, nextId, started>>

(***************************************************************************)
(* The administrative calls.  Neither takes a lock: SetMaxAge writes the   *)
(* default Options and then one codec after the other, and requests run    *)
(* in between.                                                             *)
(***************************************************************************)
\* A SetMaxAge that leaves every codec as it is.
CodecMaxAge_Keep(c, v) == c

\* c.MaxAge(v) on a *securecookie.SecureCookie; any other codec is skipped.
CodecMaxAge(c, v) == IF c.kind = "secure" THEN [c EXCEPT !.maxAge = v] ELSE c

\* SetMaxAge, line 173: rs.Options.MaxAge = v
SetMaxAgeOptions(o, v) == [o EXCEPT !.MaxAge = v]

SetMaxAgeBegin ==
    /\ admin.pc = "idle"
    /\ cfgs < MaxCfg
    /\ \E v \in MaxAgeInputs :
          /\ Options' = SetMaxAgeOptions(Options, v)
          /\ admin' = [pc |-> "codecs", v |-> v, i |-> 1,
                       was |-> [MaxAge |-> Options.MaxAge, Codecs |-> Codecs]]
    /\ maxAgeSet' = {}
    /\ cfgs' = cfgs + 1
    /\ UNCHANGED <<Codecs, maxLength, envVars, redis, saved, issued, jar, nextId,
                   started, reqVars>>

\* SetMaxAge, lines 174-180: one turn of the loop over rs.Codecs
SetMaxAgeCodec ==
    /\ admin.pc = "codecs"
    /\ admin.i <= Len(Codecs)
    /\ Codecs' = [Codecs EXCEPT ![admin.i] = CodecMaxAge(@, admin.v)]
    /\ admin' = [admin EXCEPT !.i = @ + 1]
    /\ UNCHANGED <<Options, maxLength, maxAgeSet, cfgs, envVars, redis, saved,
                   issued, jar, nextId, started, reqVars>>

SetMaxAgeReturn ==
    /\ admin.pc = "codecs"
    /\ admin.i > Len(Codecs)
    /\ admin' = NoAdmin
    /\ maxAgeSet' = {admin.v}
    /\ UNCHANGED <<Options, Codecs, maxLength, cfgs, envVars, redis, saved, issued,
                   jar, nextId, started, reqVars>>

\* The options the administrator passes to store.Options.
OptionsInputs == {[Path |-> "/app", MaxAge |-> m] : m \in MaxAgeInputs}

\* store.Options(op): rs.Options is replaced by a new struct.
StoreOptions ==
    /\ admin.pc = "idle"
    /\ cfgs < MaxCfg
    /\ \E op \in OptionsInputs : Options' = [Path |-> op.Path, MaxAge |-> op.MaxAge]
    /\ maxAgeSet' = {}
    /\ cfgs' = cfgs + 1
    /\ UNCHANGED <<Codecs, maxLength, admin, envVars, redis, saved, issued, jar,
                   nextId, started, reqVars>>

\* The pair a rotation puts in front of the list.
NewPair == SecureCodec("key3")

\* Rotation of the keys: the store is given the codecs of a new pair followed
\* by the ones it had (NewRedisStore(client, new..., old...), or an assignment
\* to the exported field Codecs).
Rotate ==
    /\ admin.pc = "idle"
    /\ cfgs < MaxCfg
    /\ Codecs' = <<NewPair>> \o Codecs
    /\ maxAgeSet' = {}
    /\ cfgs' = cfgs + 1
    /\ UNCHANGED <<Options, maxLength, admin, envVars, redis, saved, issued, jar,
                   nextId, started, reqVars>>

(***************************************************************************)
(* The environment.                                                        *)
(***************************************************************************)
\* The keys whose TTL has run out at time t.
Expired(rds, t) == {k \in DOMAIN rds : rds[k].exp <= t}

Tick ==
    /\ ticks < MaxTicks
    /\ \E d \in TickSteps :
          /\ now' = now + d
          /\ redis' = Drop(redis, Expired(redis, now + d))
          /\ saved' = Drop(saved, Expired(redis, now + d))
    /\ ticks' = ticks + 1
    /\ UNCHANGED <<storeVars, foreign, fails, scope, issued, jar, nextId, started,
                   reqVars>>

\* What another writer leaves under a session's key: a message cut short,
\* and a map whose second entry is of a type this process has not registered.
ForeignPayloads ==
    { [n |-> 2, entries |-> <<<<"j", "ok">>>>],
      [n |-> 2, entries |-> <<<<"j", "ok">>, <<"k", "unreg">>>>] }

ForeignWrite ==
    /\ foreign < MaxForeign
    /\ \E key \in DOMAIN redis, p \in ForeignPayloads :
          /\ redis' = Put(redis, key, [data |-> p, exp |-> redis[key].exp])
          /\ saved' = Drop(saved, {key})
    /\ foreign' = foreign + 1
    /\ UNCHANGED <<storeVars, now, ticks, fails, scope, issued, jar, nextId,
                   started, reqVars>>

Request ==
    \/ \E r \in Reqs : New(r)
    \/ \E r \in Reqs : SetValue(r)
    \/ \E r \in Reqs : SetSessionMaxAge(r)
    \/ \E r \in Reqs : Save(r)
    \/ \E r \in Reqs : Finish(r)

Next ==
    \/ Request
    \/ ForeignWrite

NextAdmin ==
    \/ Request
    \/ SetMaxAgeBegin
    \/ SetMaxAgeCodec
    \/ SetMaxAgeReturn
    \/ StoreOptions
    \/ Tick

NextKeys ==
    \/ Request
    \/ Rotate
    \/ Tick

NextNames ==
    \/ Request
    \/ \E r \in Reqs : Continue(r)

Spec == Init /\ [][Next]_vars

SpecAdmin == InitAdmin /\ [][NextAdmin]_vars

SpecKeys == InitKeys /\ [][NextKeys]_vars

SpecNames == InitNames /\ [][NextNames]_vars

(***************************************************************************)
(* The claims.                                                             *)
(***************************************************************************)
\* The step in which New returns to request r, and the one in which Save does.
NewStep(r) == pc[r] = "idle" /\ pc'[r] = "got"
SaveStep(r) == pc[r] = "got" /\ pc'[r] = "done"

\* The commands of a trace that went to the redis server.
Backend(tr) == SelectSeq(tr, LAMBDA c : c.cmd # "COOKIE")

\* The cookie's age is within the max-age of the codec that holds its key.
InCodecWindow(value) ==
    \E i \in 1..Len(Codecs) :
        /\ Codecs[i].key = value.key
        /\ Codecs[i].kind = "secure" =>
              Codecs[i].maxAge = 0 \/ now - value.ts <= Codecs[i].maxAge

\* C1: round trip across requests.  When New(n) is given the cookie that a
\* Save of a session named n with MaxAge >= 0 set, the key has not been
\* written or deleted since that Save, neither the key's TTL nor the codec's
\* max-age has run out and the server answers, New returns a nil error and
\* a session with the same ID, IsNew = false and every value Save stored.
C1_RoundTrip ==
    [][\A r \in Reqs : NewStep(r) =>
          \A c \in hdr'[r] :
              LET key == <<keyPrefix, c.value.id>>
              IN  ( /\ c.value.name = name'[r]
                    /\ key \in DOMAIN saved
                    /\ saved[key].value = c.value
                    /\ now - c.value.ts < saved[key].ttl
                    /\ InCodecWindow(c.value)
                    /\ fails' = fails )
                  => /\ err'[r] = Nil
                     /\ session'[r].ID = c.value.id
                     /\ session'[r].IsNew = FALSE
                     /\ \A k \in DOMAIN saved[key].Values :
                           /\ k \in DOMAIN session'[r].Values
                           /\ session'[r].Values[k] = saved[key].Values[k]]_vars

\* A request that was given a cookie sealed before the clock moved has the
\* session back with "k" -> "ok".
C1_Witness ==
    \E r \in Reqs :
        /\ pc[r] = "got" /\ muts[r] = 0 /\ err[r] = Nil
        /\ ~session[r].IsNew
        /\ session[r].ID # EmptyID
        /\ "k" \in DOMAIN session[r].Values /\ session[r].Values["k"] = "ok"
        /\ \E c \in hdr[r] : c.value.ts < at[r]

\* The cookie was sealed by a codec that checks the age of what it opens.
SealedBySecure(value) ==
    \E i \in 1..Len(Codecs) :
        Codecs[i].key = value.key /\ Codecs[i].kind = "secure"

\* New is given, more than N seconds after the Save that sealed it, the
\* cookie of a session that held "k" and was saved while SetMaxAge(N) stood,
\* and SetMaxAge(N) still stands.
PresentedLate(r, c, i, N) ==
    /\ NewStep(r)
    /\ c \in hdr'[r]
    /\ c.value.name = name'[r]
    /\ i.value = c.value
    /\ "k" \in DOMAIN i.Values
    /\ i.under = {N}
    /\ maxAgeSet = {N}
    /\ now - c.value.ts > N

\* C2 as stated: for every N, a New that presents the cookie more than N
\* seconds after the Save returns a session without "k".
C2_ExpiryAnyN ==
    [][\A r \in Reqs, i \in issued, N \in MaxAgeInputs :
          \A c \in hdr'[r] :
              PresentedLate(r, c, i, N) => "k" \notin DOMAIN session'[r].Values]_vars

\* C2, amended: for N # 0 and a cookie sealed by a SecureCookie codec, a
\* New that presents the cookie more than N seconds after the Save returns
\* a session without "k".
C2_Expiry ==
    [][\A r \in Reqs, i \in issued, N \in MaxAgeInputs \ {0} :
          \A c \in hdr'[r] :
              PresentedLate(r, c, i, N) /\ SealedBySecure(c.value)
                  => "k" \notin DOMAIN session'[r].Values]_vars

\* A request that was given, two seconds or more after the Save, the cookie
\* of a session with "k" saved under SetMaxAge(1), and has no "k".
C2_Witness ==
    \E r \in Reqs, i \in issued :
        /\ pc[r] = "got" /\ muts[r] = 0
        /\ \E c \in hdr[r] : i.value = c.value /\ at[r] - c.value.ts > 1
        /\ "k" \in DOMAIN i.Values
        /\ i.under = {1} /\ maxAgeSet = {1}
        /\ SealedBySecure(i.value)
        /\ session[r].Values = EmptyValues

\* C3: deletion.  A Save of a session with MaxAge < 0 that returns nil leaves
\* the key absent and sets a cookie with the empty value and an expiry in the
\* past; a New that is given an authentic cookie whose key is absent gets a
\* miss and a session with IsNew = true and no values.
C3_Deletion ==
    [][\A r \in Reqs :
          /\ (SaveStep(r) /\ session[r].Options.MaxAge < 0 /\ err'[r] = Nil) =>
                /\ <<keyPrefix, session[r].ID>> \notin DOMAIN redis'
                /\ Cardinality(resp'[r]) = 1
                /\ \A c \in resp'[r] :
                      /\ c.name = name[r]
                      /\ c.value = EmptyValue
                      /\ c.maxAge < 0
                      /\ c.expires < now
          /\ NewStep(r) =>
                \A c \in hdr'[r] :
                    ( /\ c.value \in {i.value : i \in issued}
                      /\ c.value.name = name'[r]
                      /\ InCodecWindow(c.value)
                      /\ <<keyPrefix, c.value.id>> \notin DOMAIN redis
                      /\ fails' = fails )
                    => /\ err'[r] = ErrRedisNil
                       /\ session'[r].IsNew
                       /\ session'[r].Values = EmptyValues]_vars

\* One request has deleted a session, and another, given the old cookie,
\* has a miss.
C3_Witness ==
    \E r, q \in Reqs :
        /\ pc[r] = "done" /\ session[r].Options.MaxAge < 0 /\ err[r] = Nil
        /\ session[r].ID # EmptyID
        /\ \A c \in resp[r] : c.value = EmptyValue
        /\ pc[q] = "got" /\ muts[q] = 0 /\ err[q] = ErrRedisNil
        /\ session[q].ID = session[r].ID
        /\ session[q].IsNew

\* The length of what Save would store for the session.
PayloadLen(s) == ByteLen(Serialize(s.Values).b)

\* C4: size limit.  When maxLength # 0 and the serialized values are longer
\* than maxLength, Save returns the size error, sends no SET, leaves the
\* server as it is and sets no cookie; values of exactly maxLength bytes, and
\* any values when maxLength = 0, are not rejected for size.
C4_SizeLimit ==
    [][\A r \in Reqs :
          (SaveStep(r) /\ session[r].Options.MaxAge >= 0
                       /\ Serialize(session[r].Values).err = Nil) =>
              /\ (maxLength # 0 /\ PayloadLen(session[r]) > maxLength) =>
                    /\ err'[r] = ErrTooBig
                    /\ \A j \in 1..Len(trace'[r]) : trace'[r][j].cmd # "SET"
                    /\ redis' = redis
                    /\ resp'[r] = {}
              /\ (maxLength = 0 \/ PayloadLen(session[r]) <= maxLength) =>
                    err'[r] # ErrTooBig]_vars

\* A Save of a session that is stored was rejected for size, and the key
\* still holds what was stored; another Save stored values of exactly
\* maxLength bytes.
C4_Witness ==
    \E r, q \in Reqs :
        /\ pc[r] = "done" /\ err[r] = ErrTooBig
        /\ session[r].ID # EmptyID
        /\ ~session[r].IsNew
        /\ <<keyPrefix, session[r].ID>> \in DOMAIN redis
        /\ PayloadLen(session[r]) = DefaultMaxLength + 1
        /\ pc[q] = "done" /\ err[q] = Nil
        /\ PayloadLen(session[q]) = maxLength
        /\ <<keyPrefix, session[q].ID>> \in DOMAIN redis

\* C5: whenever New returns a non-nil error, the session it returns is new
\* and holds no values.
C5_ErrorGivesEmpty ==
    \A r \in Reqs :
        (pc[r] = "got" /\ muts[r] = 0 /\ err[r] # Nil) =>
            /\ session[r].IsNew
            /\ session[r].Values = EmptyValues

\* C6: the cookie is set only after the backend command has succeeded, and a
\* Save that returns an error has set no cookie and left no write in place.
C6_SaveAtomic ==
    \A r \in Reqs :
        pc[r] = "done" =>
            /\ \A j \in 1..Len(trace[r]) :
                  trace[r][j].cmd = "COOKIE" =>
                      \E i \in 1..(j - 1) :
                          trace[r][i].cmd \in {"SET", "DEL"} /\ trace[r][i].ok
            /\ resp[r] # {} => \E j \in 1..Len(trace[r]) : trace[r][j].cmd = "COOKIE"
            /\ err[r] # Nil =>
                  /\ resp[r] = {}
                  /\ \A j \in 1..Len(trace[r]) :
                        ~(trace[r][j].cmd \in {"SET", "DEL"} /\ trace[r][j].ok)

\* C7: the three-way max-age of Save.  MaxAge < 0: one DEL of the key, no
\* SET, no identifier generated.  MaxAge = 0: one SET with a TTL of 1200 s.
\* MaxAge > 0: one SET with a TTL of MaxAge seconds.  (A Save that is
\* rejected before the SET, for size or by the serializer, sends nothing.)
C7_ThreeWay ==
    [][\A r \in Reqs : SaveStep(r) =>
          LET age == session[r].Options.MaxAge
              cmds == Backend(trace'[r])
              key == <<keyPrefix, session'[r].ID>>
              rejected == err'[r] \in {ErrTooBig, ErrGob}
          IN  /\ age < 0 =>
                    /\ Len(cmds) = 1
                    /\ cmds[1].cmd = "DEL" /\ cmds[1].key = key
                    /\ session'[r].ID = session[r].ID
                    /\ nextId' = nextId
              /\ (age >= 0 /\ ~rejected) =>
                    /\ Len(cmds) = 1
                    /\ cmds[1].cmd = "SET" /\ cmds[1].key = key
                    /\ cmds[1].ttl = IF age = 0 THEN 1200 ELSE age
                    /\ cmds[1].ok => redis'[key].exp = now + cmds[1].ttl
              /\ (age >= 0 /\ rejected) => cmds = <<>>]_vars

\* Saves with MaxAge = 0 and with MaxAge > 0 have each sent their SET.
C7_Witness ==
    \E r, q \in Reqs :
        /\ pc[r] = "done" /\ session[r].Options.MaxAge = 0 /\ err[r] = Nil
        /\ trace[r][1].cmd = "SET" /\ trace[r][1].ttl = 1200
        /\ pc[q] = "done" /\ session[q].Options.MaxAge = 1 /\ err[q] = Nil
        /\ trace[q][1].cmd = "SET" /\ trace[q][1].ttl = 1

\* C8: a New or a Save sends commands for the key of its own session only,
\* and leaves what is stored under every other key as it is.
C8_OwnKeyOnly ==
    [][\A r \in Reqs : (NewStep(r) \/ SaveStep(r)) =>
          LET key == <<keyPrefix, session'[r].ID>>
          IN  /\ \A j \in 1..Len(trace'[r]) : trace'[r][j].key = key
              /\ \A q \in (DOMAIN redis \cup DOMAIN redis') \ {key} :
                    /\ q \in DOMAIN redis /\ q \in DOMAIN redis'
                    /\ redis'[q] = redis[q]]_vars

\* Two requests in flight have saved sessions with different identifiers.
C8_Witness ==
    /\ \A r \in Reqs : pc[r] = "done" /\ err[r] = Nil /\ session[r].ID # EmptyID
    /\ \A r \in Reqs : <<keyPrefix, session[r].ID>> \in DOMAIN redis
    /\ session[1].ID # session[2].ID
    /\ redis[<<keyPrefix, session[1].ID>>].data # redis[<<keyPrefix, session[2].ID>>].data

\* C9: for every Save with MaxAge >= 0 that returns nil, the max-age of the
\* codec that seals the cookie equals the TTL of the SET.
C9_CookieAgeIsTTL ==
    [][\A r \in Reqs :
          (SaveStep(r) /\ session[r].Options.MaxAge >= 0 /\ err'[r] = Nil
                       /\ Codecs[1].kind = "secure") =>
              Codecs[1].maxAge = Backend(trace'[r])[1].ttl]_vars

\* C10: when SetMaxAge(v) has returned, the default Options.MaxAge is v, every
\* SecureCookie codec has max-age v, also those after a codec of another
\* kind, and the codecs of another kind are as they were.
C10_SetMaxAge ==
    \A v \in maxAgeSet :
        /\ Options.MaxAge = v
        /\ \A i \in 1..Len(Codecs) :
              /\ Codecs[i].kind = "secure" => Codecs[i].maxAge = v
              /\ Codecs[i].kind = "custom" => Codecs[i] = CustomCodec(Codecs[i].key)

\* SetMaxAge(1) has returned on a store whose first codec is of another kind.
C10_Witness ==
    /\ maxAgeSet = {1}
    /\ Len(Codecs) = 2
    /\ Codecs[1].kind = "custom"
    /\ Codecs[2].kind = "secure" /\ Codecs[2].maxAge = 1

\* C11: Options isolation.  The session New returns holds the store's default
\* Options as they are at that moment; a write to a field of one session's
\* Options leaves the store's default Options and the Options of every other
\* session as they are, and a session created later gets the default again.
C11_OptionsIsolation ==
    [][\A r \in Reqs :
          /\ NewStep(r) =>
                /\ session'[r].Options = Options
                /\ Options' = Options
                /\ \A q \in Reqs \ {r} : session'[q].Options = session[q].Options
          /\ (pc[r] = "got" /\ pc'[r] = "got" /\ muts'[r] # muts[r]
                /\ session'[r].Options # session[r].Options) =>
                /\ Options' = Options
                /\ \A q \in Reqs \ {r} : session'[q].Options = session[q].Options]_vars

\* One handler has changed its session's MaxAge; the store's default is what
\* NewRedisStore made it, and the session of the other request holds it.
C11_Witness ==
    \E r, q \in Reqs :
        /\ pc[r] = "got" /\ muts[r] = 1
        /\ session[r].Options.MaxAge = 1
        /\ Options = [Path |-> "/", MaxAge |-> sessionExpire]
        /\ pc[q] = "got" /\ muts[q] = 0
        /\ session[q].Options = Options

\* The request's cookie for the session name authenticates, the server
\* answers the GET with the key's data, and the data decodes.
LoadedFresh(r) ==
    \E c \in hdr'[r] :
        /\ c.name = name'[r]
        /\ \E i \in 1..Len(Codecs) :
              /\ Codecs[i].key = c.value.key
              /\ c.value.name = name'[r]
              /\ Codecs[i].kind = "secure" =>
                    Codecs[i].maxAge = 0 \/ now - c.value.ts <= Codecs[i].maxAge
        /\ fails' = fails
        /\ <<keyPrefix, c.value.id>> \in DOMAIN redis
        /\ LET d == redis[<<keyPrefix, c.value.id>>].data
           IN  /\ Len(d.entries) = d.n
               /\ \A j \in 1..Len(d.entries) : d.entries[j][2] # "unreg"

\* C12: IsNew is exact.  New returns IsNew = false if and only if the request
\* carried a cookie for the name, the cookie authenticated, the GET on
\* keyPrefix+id was a hit and the data decoded; otherwise IsNew = true.
C12_IsNewExact ==
    [][\A r \in Reqs : NewStep(r) => (session'[r].IsNew = FALSE <=> LoadedFresh(r))]_vars

\* Two requests were given the cookie of the same session; one loaded it, the
\* other was given data that does not decode and has IsNew = true.
C12_Witness ==
    \E r, q \in Reqs :
        /\ pc[r] = "got" /\ muts[r] = 0 /\ ~session[r].IsNew /\ err[r] = Nil
        /\ pc[q] = "got" /\ muts[q] = 0 /\ session[q].IsNew
        /\ err[q] \in {ErrGob, ErrGobEOF}
        /\ hdr[q] = hdr[r] /\ hdr[r] # {}

\* C13: identifier stability.  Once the session of a request has an ID, from
\* its cookie in New or generated by Save, no later step of the request, a
\* second Save included, gives it another.
C13_IdStable ==
    [][\A r \in Reqs :
          (pc[r] # "idle" /\ pc'[r] # "idle" /\ session[r].ID # EmptyID) =>
              session'[r].ID = session[r].ID]_vars

\* A session that came without a cookie has been saved twice and has the ID
\* the first Save gave it.
C13_Witness ==
    \E r \in Reqs :
        /\ pc[r] = "done" /\ muts[r] = 1 /\ err[r] = Nil
        /\ hdr[r] = {}
        /\ session[r].Values = EmptyValues
        /\ session[r].Options.MaxAge = sessionExpire
        /\ session[r].ID # EmptyID
        /\ nextId = session[r].ID + 1

\* C14: no internal retry.  A New sends at most one command, a GET; a Save
\* sends at most one command, a SET or a DEL; and when the server does not
\* answer it, the call returns the server's error having sent nothing more.
C14_NoRetry ==
    [][\A r \in Reqs :
          LET cmds == Backend(trace'[r])
          IN  /\ NewStep(r) =>
                    /\ Len(cmds) <= 1
                    /\ \A j \in 1..Len(cmds) : cmds[j].cmd = "GET"
              /\ SaveStep(r) =>
                    /\ Len(cmds) <= 1
                    /\ \A j \in 1..Len(cmds) : cmds[j].cmd \in {"SET", "DEL"}
              /\ (NewStep(r) \/ SaveStep(r)) =>
                    \A j \in 1..Len(cmds) :
                        ~cmds[j].ok => /\ err'[r] = ErrBackend
                                       /\ trace'[r] = <<cmds[j]>>
                                       /\ redis' = redis]_vars

\* A Save whose SET the server did not answer has returned the error, with
\* that one SET sent.
C14_Witness ==
    \E r \in Reqs :
        /\ pc[r] = "done" /\ err[r] = ErrBackend
        /\ Len(trace[r]) = 1
        /\ trace[r][1].cmd = "SET" /\ ~trace[r][1].ok
        /\ resp[r] = {}

\* The configuration a request reads: the default MaxAge it copies and the
\* codecs it opens and seals with.
SeenConfig == [MaxAge |-> Options.MaxAge, Codecs |-> Codecs]

\* The configuration SetMaxAge(v) makes of the one it was called on.
AfterSetMaxAge(was, v) ==
    [MaxAge |-> v,
     Codecs |-> [i \in DOMAIN was.Codecs |-> CodecMaxAge(was.Codecs[i], v)]]

\* C15: a New that runs while SetMaxAge is in progress reads a configuration
\* that is entirely the one before the call or entirely the one after it.
C15_ConfigAtomic ==
    [][\A r \in Reqs :
          (NewStep(r) /\ admin.pc = "codecs") =>
              \/ SeenConfig = admin.was
              \/ SeenConfig = AfterSetMaxAge(admin.was, admin.v)]_vars

\* C16: key rotation.  Save seals the cookie with the first codec of the
\* list, and New opens a cookie sealed by any codec of the list to the ID it
\* was sealed with; so after a new pair is put in front of the list, earlier
\* cookies still open and new cookies are sealed with the new pair.
C16_Rotation ==
    [][\A r \in Reqs :
          /\ SaveStep(r) =>
                \A c \in resp'[r] :
                    c.value # EmptyValue =>
                        /\ c.value.key = Codecs[1].key
                        /\ c.value.id = session'[r].ID
          /\ NewStep(r) =>
                \A c \in hdr'[r] :
                    (c.value.name = name'[r] /\ InCodecWindow(c.value)) =>
                        /\ err'[r] # ErrAuth
                        /\ session'[r].ID = c.value.id]_vars

\* After the rotation, and later than a Save that sealed a cookie with the
\* new pair, a New has opened a cookie sealed with an old pair and loaded its
\* session.
C16_Witness ==
    \E q \in Reqs, i \in issued :
        /\ Codecs[1] = NewPair
        /\ i.value.key = NewPair.key
        /\ i.value.ts < at[q]
        /\ pc[q] = "got" /\ muts[q] = 0
        /\ err[q] = Nil /\ ~session[q].IsNew
        /\ \E c \in hdr[q] :
              /\ c.value.key # NewPair.key
              /\ session[q].ID = c.value.id

\* C17: name binding.  The cookie value Save produced for the session name n
\* opens in New(n) to its ID; given to New under another name it fails
\* authentication, and New returns the error and a new session whose ID is
\* not that ID.
C17_NameBinding ==
    [][\A r \in Reqs : NewStep(r) =>
          \A c \in hdr'[r] :
              c.value \in {i.value : i \in issued} =>
                  /\ (c.value.name = name'[r] /\ InCodecWindow(c.value)) =>
                        /\ err'[r] # ErrAuth
                        /\ session'[r].ID = c.value.id
                  /\ c.value.name # name'[r] =>
                        /\ err'[r] = ErrAuth
                        /\ session'[r].IsNew
                        /\ session'[r].ID # c.value.id]_vars

\* The same cookie value has been given to New under its own name, which
\* opened it, and under the other name, which did not.
C17_Witness ==
    \E r, q \in Reqs :
        /\ pc[r] = "got" /\ muts[r] = 0 /\ pc[q] = "got" /\ muts[q] = 0
        /\ name[r] = "mysession" /\ name[q] = "other"
        /\ \E c \in hdr[r], d \in hdr[q] :
              /\ c.value = d.value
              /\ c.value \in {i.value : i \in issued}
              /\ c.value.name = "mysession"
              /\ session[r].ID = c.value.id
              /\ session[q].ID # c.value.id
        /\ err[r] = Nil /\ err[q] = ErrAuth
        /\ session[q].IsNew

\* C18: a session that came to Save with an empty ID has an ID afterwards
\* only if a SET under keyPrefix+ID has succeeded for it; a Save that fails,
\* for size or because the SET was not answered, leaves the ID empty.
C18_IdOnlyWhenStored ==
    [][\A r \in Reqs :
          (SaveStep(r) /\ session[r].ID = EmptyID /\ session'[r].ID # EmptyID) =>
              \E j \in 1..Len(trace'[r]) :
                  /\ trace'[r][j].cmd = "SET"
                  /\ trace'[r][j].ok
                  /\ trace'[r][j].key = <<keyPrefix, session'[r].ID>>]_vars

\* The cookie of the request authenticates, and the load fails: the key is
\* absent, the GET is not answered, or the data does not decode.
LoadFailed(r, c) ==
    /\ c \in hdr'[r]
    /\ c.value.name = name'[r]
    /\ InCodecWindow(c.value)
    /\ \/ fails' # fails
       \/ <<keyPrefix, c.value.id>> \notin DOMAIN redis
       \/ LET d == redis[<<keyPrefix, c.value.id>>].data
          IN  \/ Len(d.entries) < d.n
              \/ \E j \in 1..Len(d.entries) : d.entries[j][2] = "unreg"

\* C19: identifier reuse after a failed load.  When the cookie authenticates
\* and the load fails, New returns a session with IsNew = true and the ID of
\* the cookie; and a Save with MaxAge >= 0 of a session that has an ID
\* writes under keyPrefix plus that ID and generates none.
C19_IdReuse ==
    [][\A r \in Reqs :
          /\ NewStep(r) =>
                \A c \in hdr'[r] :
                    LoadFailed(r, c) =>
                        /\ err'[r] # Nil
                        /\ session'[r].IsNew
                        /\ session'[r].ID = c.value.id
          /\ (SaveStep(r) /\ session[r].Options.MaxAge >= 0
                          /\ session[r].ID # EmptyID) =>
                /\ session'[r].ID = session[r].ID
                /\ nextId' = nextId
                /\ \A j \in 1..Len(trace'[r]) :
                      trace'[r][j].key = <<keyPrefix, session[r].ID>>]_vars

\* A request whose load missed has saved its session under the ID of its
\* cookie.
C19_Witness ==
    \E r \in Reqs :
        /\ pc[r] = "done" /\ err[r] = Nil
        /\ session[r].IsNew
        /\ \E c \in hdr[r] :
              /\ c.value \in {i.value : i \in issued}
              /\ session[r].ID = c.value.id
        /\ trace[r][1].cmd = "SET" /\ trace[r][1].ok
        /\ trace[r][1].key = <<keyPrefix, session[r].ID>>
        /\ <<keyPrefix, session[r].ID>> \in DOMAIN redis

\* Every key the server holds, holds the serialized values of the last Save
\* whose SET of it succeeded.
HoldsOneSave ==
    \A key \in DOMAIN redis :
        /\ key \in DOMAIN saved
        /\ redis[key].data = Serialize(saved[key].Values).b

\* C20: whole-value overwrite.  A Save whose SET succeeds leaves under
\* keyPrefix+ID exactly the serialized values of its own session, whatever
\* the key held; a New changes nothing; so, with no other writer, what a key
\* holds is at all times the values of one single Save, the last.
C20_LastSetWins ==
    [][/\ \A r \in Reqs :
            /\ NewStep(r) => redis' = redis
            /\ SaveStep(r) =>
                  \A j \in 1..Len(trace'[r]) :
                      (trace'[r][j].cmd = "SET" /\ trace'[r][j].ok) =>
                          /\ trace'[r][j].key = <<keyPrefix, session'[r].ID>>
                          /\ redis'[trace'[r][j].key].data
                                = Serialize(session[r].Values).b
       /\ (foreign' = 0 /\ Codecs # <<>>) => HoldsOneSave']_vars

\* Two requests loaded the same session, one set "k" and the other "j", both
\* saved, and the key holds the values of one of them, without "k".
C20_Witness ==
    \E r, q \in Reqs :
        /\ pc[r] = "done" /\ pc[q] = "done" /\ err[r] = Nil /\ err[q] = Nil
        /\ ~session[r].IsNew /\ ~session[q].IsNew
        /\ session[r].ID = session[q].ID
        /\ "k" \in DOMAIN session[r].Values
        /\ "k" \notin DOMAIN session[q].Values
        /\ "j" \in DOMAIN session[q].Values
        /\ foreign = 0
        /\ redis[<<keyPrefix, session[q].ID>>].data = Serialize(session[q].Values).b

====
